---- MODULE Spec2Model ----
(***************************************************************************)
(* Model of mlagents/plugins/stats_writer.py: the JSON coercion helpers,   *)
(* the default StatsWriter factory with its config flattening, and the     *)
(* plugin discovery loop of register_stats_writer_plugins.                 *)
(***************************************************************************)
EXTENDS Naturals, Sequences, FiniteSets, TLC

\* ------------------------------------------------------------------ bounds
MaxEntries == 2      \* entry points registered under the namespace key
MaxBehaviors == 2    \* entries of run_options.behaviors
MaxSinks == 1        \* StatsWriters a third-party factory returns

\* ------------------------------------------------------------ Python values
\* A Python value: its type and its str() text.
PyVal(kind, text) == [kind |-> kind, text |-> text]
PyStr(text) == PyVal("str", text)

\* The types json.dumps encodes without a TypeError.
JsonEncodable == {"str", "int", "float", "bool", "NoneType", "list"}

\* The module's global names bound by its import statements (lines 1-16):
\* `json` is not one of them.
ModuleGlobals ==
    {"sys", "List", "importlib_metadata", "StatsWriter", "logging_util",
     "ML_AGENTS_STATS_WRITER", "RunOptions", "TensorboardWriter", "GaugeWriter",
     "ConsoleWriter", "WandbWriter"}

\* json.dumps(x): "ok", or the exception it raises. Looking up the global
\* name `json` comes first and raises NameError when it is unbound.
json_dumps(x) ==
    IF "json" \notin ModuleGlobals THEN "NameError"
    ELSE IF x.kind \notin JsonEncodable THEN "TypeError"
    ELSE "ok"

\* try: json.dumps(x); return True / except: return False
is_jsonable(x) == json_dumps(x) = "ok"

\* str(x): a str with the value's text.
str(x) == PyStr(x.text)

\* ------------------------------------------------------------------- dicts
\* A dict is the sequence of its items in insertion order, keys unique.
Item(key, val) == [key |-> key, val |-> val]

DictHas(d, key) == \E n \in 1..Len(d) : d[n].key = key

DictGet(d, key) == d[CHOOSE n \in 1..Len(d) : d[n].key = key].val

\* d[key] = val
DictSet(d, key, val) ==
    IF DictHas(d, key)
    THEN [n \in 1..Len(d) |-> IF d[n].key = key THEN Item(key, val) ELSE d[n]]
    ELSE Append(d, Item(key, val))

\* Mutant of DictUpdate: the first writer of a key wins.
RECURSIVE DictUpdate_setdefault(_, _)
DictUpdate_setdefault(d, items) ==
    IF items = <<>> THEN d
    ELSE DictUpdate_setdefault(
             IF DictHas(d, Head(items).key) THEN d
             ELSE DictSet(d, Head(items).key, Head(items).val),
             Tail(items))

\* d.update(items)
RECURSIVE DictUpdate(_, _)
DictUpdate(d, items) ==
    IF items = <<>> THEN d
    ELSE DictUpdate(DictSet(d, Head(items).key, Head(items).val), Tail(items))

\* Convert non-JSON serializable items to string
RECURSIVE to_json_serializable_from(_, _)
to_json_serializable_from(new_dict, items) ==
    IF items = <<>> THEN new_dict
    ELSE LET key == Head(items).key
             value == Head(items).val
             key2 == IF ~is_jsonable(key) THEN str(key) ELSE key
             value2 == IF ~is_jsonable(value) THEN str(value) ELSE value
         IN to_json_serializable_from(DictSet(new_dict, key2, value2), Tail(items))

to_json_serializable(d) == to_json_serializable_from(<<>>, d)

\* ----------------------------------------------------------------- objects
\* An object is the sequence of its attributes in dir() order (sorted by
\* name), each an Item(name, value); a bound method is a value of kind
\* "method".
callable(v) == v.kind = "method"

\* attr.startswith("__"), over the attribute names of the objects below.
StartsWithDunder(name) == name \in {"__class__", "__doc__"}

PPOHyperparameters ==
    << Item("__class__", PyVal("type", "<class 'PPOSettings'>")),
       Item("as_dict", PyVal("method", "<bound method as_dict>")),
       Item("batch_size", PyVal("int", "32")),
       Item("learning_rate", PyVal("float", "0.0003")) >>

SACHyperparameters ==
    << Item("__class__", PyVal("type", "<class 'SACSettings'>")),
       Item("batch_size", PyVal("int", "64")),
       Item("env_settings_seed", PyVal("int", "7")),
       Item("max_steps", PyVal("int", "100")),
       Item("tau", PyVal("float", "0.005")) >>

PPOBehavior ==
    [hyperparameters |-> PPOHyperparameters,
     attrs |-> << Item("__class__", PyVal("type", "<class 'TrainerSettings'>")),
                  Item("as_dict", PyVal("method", "<bound method as_dict>")),
                  Item("hyperparameters", PyVal("object", "PPOSettings(batch_size=32)")),
                  Item("max_steps", PyVal("int", "500000")),
                  Item("trainer_type", PyStr("ppo")) >>]

SACBehavior ==
    [hyperparameters |-> SACHyperparameters,
     attrs |-> << Item("__class__", PyVal("type", "<class 'TrainerSettings'>")),
                  Item("hyperparameters", PyVal("object", "SACSettings(batch_size=64)")),
                  Item("max_steps", PyVal("int", "1000")),
                  Item("trainer_type", PyStr("sac")) >>]

BehaviorSettings == {PPOBehavior, SACBehavior}

EngineSettings ==
    << Item("__doc__", PyVal("NoneType", "None")),
       Item("no_graphics", PyVal("bool", "False")),
       Item("width", PyVal("int", "84")) >>

EnvSettings ==
    << Item("as_dict", PyVal("method", "<bound method as_dict>")),
       Item("env_args", PyVal("list", "['--fast']")),
       Item("seed", PyVal("int", "-1")) >>

TorchSettings ==
    << Item("device", PyVal("object", "device(type='cpu')")) >>

\* The attributes of RunOptions the factory reads, in the order it reads them
\* (lines 49-55).
RunOptionsFields ==
    << "checkpoint_settings", "behaviors", "checkpoint_settings", "engine_settings",
       "environment_parameters", "env_settings", "torch_settings" >>

\* A RunOptions; `missing` names the attribute a malformed one lacks.
RunOptions ==
    [behaviors : UNION {[1..n -> BehaviorSettings] : n \in 0..MaxBehaviors},
     checkpoint_settings : [resume : BOOLEAN, write_path : {"results/run"}],
     engine_settings : {EngineSettings},
     env_settings : {EnvSettings},
     torch_settings : {TorchSettings},
     missing : {"none", "checkpoint_settings", "debug"}]

\* getattr(obj, name) of a settings attribute of RunOptions.
getattr(obj, name) ==
    CASE name = "engine_settings" -> obj.engine_settings
      [] name = "env_settings" -> obj.env_settings
      [] name = "torch_settings" -> obj.torch_settings

\* Helper function to get attributes of an object as a dictionary
get_attributes(obj) ==
    SelectSeq(obj, LAMBDA a : ~callable(a.val) /\ ~StartsWithDunder(a.key))

\* A dict comprehension {f"{prefix}{key}": val for key, val in d.items()}.
Keyed(prefix, d) == [n \in 1..Len(d) |-> Item(PyStr(prefix \o d[n].key), d[n].val)]

\* ------------------------------------------------------------ StatsWriters
\* A StatsWriter object: its class and constructor arguments; (entry, serial)
\* is its identity: the entry point whose call built it (0: resolve itself)
\* and its position in what that call returned.
StatsWriter(type, base_dir, clear_past_data, hidden_keys, config) ==
    [type |-> type, base_dir |-> base_dir, clear_past_data |-> clear_past_data,
     hidden_keys |-> hidden_keys, config |-> config, entry |-> 0, serial |-> 0]

TensorboardWriter(base_dir, clear_past_data, hidden_keys) ==
    StatsWriter("TensorboardWriter", base_dir, clear_past_data, hidden_keys, <<>>)
GaugeWriter == StatsWriter("GaugeWriter", "", FALSE, <<>>, <<>>)
ConsoleWriter == StatsWriter("ConsoleWriter", "", FALSE, <<>>, <<>>)
WandbWriter(config) == StatsWriter("WandbWriter", "", FALSE, <<>>, config)
PluginWriter == StatsWriter("PluginWriter", "", FALSE, <<>>, <<>>)

\* The objects a call made for entry point `entry` returned.
Built(writers, entry) ==
    [n \in 1..Len(writers) |-> [writers[n] EXCEPT !.entry = entry, !.serial = n]]

\* The outcome of a call: the value returned, or the exception raised.
Return(value) == [exc |-> "none", value |-> value]
Raise(exc) == [exc |-> exc, value |-> <<>>]

\* ------------------------------------------------ get_default_stats_writers
\* Lines 65-69: the loop over run_options.behaviors.items().
RECURSIVE ExtractBehaviors(_, _)
ExtractBehaviors(extracted_data, behaviors) ==
    IF behaviors = <<>> THEN extracted_data
    ELSE LET behavior_settings == Head(behaviors)
             hyperparams == get_attributes(behavior_settings.hyperparameters)
             behavior_data == get_attributes(behavior_settings.attrs)
             d1 == DictUpdate(extracted_data, Keyed("", hyperparams))
             d2 == DictUpdate(d1, Keyed("", behavior_data))
         IN ExtractBehaviors(d2, Tail(behaviors))

settings_list == << "engine_settings", "env_settings", "torch_settings" >>

\* Lines 72-75: the loop over settings_list.
RECURSIVE ExtractSettings(_, _, _)
ExtractSettings(extracted_data, run_options, names) ==
    IF names = <<>> THEN extracted_data
    ELSE LET setting_name == Head(names)
             setting_data == get_attributes(getattr(run_options, setting_name))
         IN ExtractSettings(
                DictUpdate(extracted_data, Keyed(setting_name \o "_", setting_data)),
                run_options, Tail(names))

\* extracted_data as line 77 prints it.
ExtractedData(run_options) ==
    ExtractSettings(ExtractBehaviors(<<>>, run_options.behaviors), run_options,
                    settings_list)

\* Mutant of DefaultWriters: the experiment tracker is left out.
DefaultWriters_three(checkpoint_settings, extracted_data) ==
    << TensorboardWriter(checkpoint_settings.write_path,
                         ~checkpoint_settings.resume,
                         << "Is Training", "Step" >>),
       GaugeWriter,
       ConsoleWriter >>

\* Mutant of DefaultWriters: clear_past_data is the resume flag itself.
DefaultWriters_keep(checkpoint_settings, extracted_data) ==
    << TensorboardWriter(checkpoint_settings.write_path,
                         checkpoint_settings.resume,
                         << "Is Training", "Step" >>),
       GaugeWriter,
       ConsoleWriter,
       WandbWriter(extracted_data) >>

\* Lines 81-90: the list the factory returns.
DefaultWriters(checkpoint_settings, extracted_data) ==
    << TensorboardWriter(checkpoint_settings.write_path,
                         ~checkpoint_settings.resume,
                         << "Is Training", "Step" >>),
       GaugeWriter,
       ConsoleWriter,
       WandbWriter(extracted_data) >>

\* Reading an attribute the RunOptions lacks raises AttributeError.
ReadRaises(run_options) ==
    \E n \in 1..Len(RunOptionsFields) : RunOptionsFields[n] = run_options.missing

\* Mutant of get_default_stats_writers: a missing attribute gives an empty
\* list instead of an AttributeError.
get_default_stats_writers_lenient(run_options) ==
    IF ReadRaises(run_options)
    THEN Return(<<>>)
    ELSE Return(DefaultWriters(run_options.checkpoint_settings,
                               to_json_serializable(ExtractedData(run_options))))

get_default_stats_writers(run_options) ==
    IF ReadRaises(run_options)
    THEN Raise("AttributeError")
    ELSE Return(DefaultWriters(run_options.checkpoint_settings,
                               to_json_serializable(ExtractedData(run_options))))

\* ------------------------------------------------------------ entry points
\* An entry point of the host registry: what its load() does and what the
\* factory it loads does when called with run_options.
EntryPoint(name, load, factory, k) ==
    [name |-> name, load |-> load, factory |-> factory, k |-> k]

EntryPoints ==
    {EntryPoint("default", "ok", "get_default_stats_writers", 0),
     EntryPoint("unimportable", "ImportError", "none", 0),
     EntryPoint("raising", "ok", "raises", 0),
     EntryPoint("returns_none", "ok", "returns_none", 0),
     EntryPoint("failing_iterable", "ok", "returns_failing_iterable", 1)}
    \cup {EntryPoint("plugin", "ok", "returns_list", k) : k \in 0..MaxSinks}

\* importlib_metadata.entry_points(): whether it holds the key
\* ML_AGENTS_STATS_WRITER and the entries listed under it.
Registries ==
    {[has_key |-> FALSE, entries |-> <<>>]}
    \cup {[has_key |-> TRUE, entries |-> e] :
            e \in UNION {[1..n -> EntryPoints] : n \in 0..MaxEntries}}

\* What a third-party factory returned: a list, None, or an object with a
\* __len__ whose iterator raises after yielding `items`.
Returned(type, items) == [type |-> type, items |-> items]
Unset == Returned("unset", <<>>)

\* plugin_func(run_options) for the factory of entry point number `index`.
PluginCall(entry_point, index, options) ==
    CASE entry_point.factory = "get_default_stats_writers" ->
            LET out == get_default_stats_writers(options)
            IN IF out.exc # "none" THEN out
               ELSE Return(Returned("list", Built(out.value, index)))
      [] entry_point.factory = "returns_list" ->
            Return(Returned("list",
                            Built([n \in 1..entry_point.k |-> PluginWriter], index)))
      [] entry_point.factory = "returns_none" -> Return(Returned("NoneType", <<>>))
      [] entry_point.factory = "returns_failing_iterable" ->
            Return(Returned("FailingIterable",
                            Built([n \in 1..entry_point.k |-> PluginWriter], index)))
      [] OTHER -> Raise("RuntimeError")

\* len(x): the exception it raises, "none" when it returns.
LenRaises(x) == IF x.type = "NoneType" THEN "TypeError" ELSE "none"

\* Mutant of Extended: the new sinks are put in front.
Extended_prepend(writers, x) == x.items \o writers

\* Mutant of Extended: = instead of +=.
Extended_assign(writers, x) == x.items

\* all_stats_writers += x: list.extend appends the items one at a time as the
\* iterator yields them, so what was yielded before the iterator raised stays.
Extended(writers, x) == writers \o x.items
ExtendRaises(x) == IF x.type = "FailingIterable" THEN "RuntimeError" ELSE "none"

LogRecord(level, about) == [level |-> level, about |-> about]

\* -------------------------------------------------------------------- state
VARIABLES
    run_options,            \* the argument of register_stats_writer_plugins
    registry,               \* importlib_metadata.entry_points()
    pc,                     \* the statement the call is at
    entry_index,            \* position of the for loop in entry_points
    all_stats_writers,      \* the accumulator
    plugin_stats_writers,   \* what the current entry's factory returned
    log,                    \* the records handed to logger
    calls,                  \* the load() and factory calls made, in order
    result,                 \* the list returned, once returned
    raised                  \* the exception that left the call, or "none"

vars == << run_options, registry, pc, entry_index, all_stats_writers,
           plugin_stats_writers, log, calls, result, raised >>

entry_points == registry.entries
entry_point == entry_points[entry_index]

Init ==
    /\ run_options \in RunOptions
    /\ registry \in Registries
    /\ pc = "start"
    /\ entry_index = 0
    /\ all_stats_writers = <<>>
    /\ plugin_stats_writers = Unset
    /\ log = <<>>
    /\ calls = <<>>
    /\ result = <<>>
    /\ raised = "none"

\* Lines 99-105: the key is absent; warn and return the defaults.
NoPluginEntryPoints ==
    /\ pc = "start"
    /\ ~registry.has_key
    /\ log' = Append(log, LogRecord("warning", "ML_AGENTS_STATS_WRITER"))
    /\ LET out == get_default_stats_writers(run_options)
       IN IF out.exc # "none"
          THEN /\ pc' = "raised"
               /\ raised' = out.exc
               /\ result' = result
          ELSE /\ pc' = "done"
               /\ result' = Built(out.value, 0)
               /\ raised' = raised
    /\ UNCHANGED << run_options, registry, entry_index, all_stats_writers,
                    plugin_stats_writers, calls >>

\* Line 107: the key is present; fetch its entries.
FetchEntryPoints ==
    /\ pc = "start"
    /\ registry.has_key
    /\ pc' = "for"
    /\ entry_index' = 1
    /\ UNCHANGED << run_options, registry, all_stats_writers, plugin_stats_writers,
                    log, calls, result, raised >>

\* Lines 112-113: logger.debug, then entry_point.load().
LoadEntry ==
    /\ pc = "for"
    /\ entry_index <= Len(entry_points)
    /\ log' = Append(log, LogRecord("debug", entry_point.name))
    /\ calls' = Append(calls, << "load", entry_index >>)
    /\ pc' = IF entry_point.load = "ok" THEN "loaded" ELSE "except"
    /\ UNCHANGED << run_options, registry, entry_index, all_stats_writers,
                    plugin_stats_writers, result, raised >>

\* Line 114: plugin_stats_writers = plugin_func(run_options).
InvokeFactory ==
    /\ pc = "loaded"
    /\ calls' = Append(calls, << "call", entry_index >>)
    /\ LET out == PluginCall(entry_point, entry_index, run_options)
       IN IF out.exc # "none"
          THEN /\ pc' = "except"
               /\ plugin_stats_writers' = plugin_stats_writers
          ELSE /\ pc' = "invoked"
               /\ plugin_stats_writers' = out.value
    /\ UNCHANGED << run_options, registry, entry_index, all_stats_writers, log,
                    result, raised >>

\* Lines 115-117: logger.debug(f"Found {len(plugin_stats_writers)} ...").
CountWriters ==
    /\ pc = "invoked"
    /\ IF LenRaises(plugin_stats_writers) # "none"
       THEN /\ pc' = "except"
            /\ log' = log
       ELSE /\ pc' = "counted"
            /\ log' = Append(log, LogRecord("debug", entry_point.name))
    /\ UNCHANGED << run_options, registry, entry_index, all_stats_writers,
                    plugin_stats_writers, calls, result, raised >>

\* Line 118: all_stats_writers += plugin_stats_writers, the last statement of
\* the try block.
ExtendWriters ==
    /\ pc = "counted"
    /\ all_stats_writers' = Extended(all_stats_writers, plugin_stats_writers)
    /\ IF ExtendRaises(plugin_stats_writers) # "none"
       THEN /\ pc' = "except"
            /\ entry_index' = entry_index
       ELSE /\ pc' = "for"
            /\ entry_index' = entry_index + 1
    /\ plugin_stats_writers' = Unset
    /\ UNCHANGED << run_options, registry, log, calls, result, raised >>

\* Mutant of HandleException: the handler logs and raises again.
HandleException_reraise ==
    /\ pc = "except"
    /\ log' = Append(log, LogRecord("exception", entry_point.name))
    /\ pc' = "raised"
    /\ raised' = "Exception"
    /\ plugin_stats_writers' = Unset
    /\ UNCHANGED << run_options, registry, entry_index, all_stats_writers, calls, result >>

\* Lines 119-123: except BaseException: logger.exception(...); next entry.
HandleException ==
    /\ pc = "except"
    /\ log' = Append(log, LogRecord("exception", entry_point.name))
    /\ pc' = "for"
    /\ entry_index' = entry_index + 1
    /\ plugin_stats_writers' = Unset
    /\ UNCHANGED << run_options, registry, all_stats_writers, calls, result, raised >>

\* Line 124: return all_stats_writers.
ReturnWriters ==
    /\ pc = "for"
    /\ entry_index > Len(entry_points)
    /\ pc' = "done"
    /\ result' = all_stats_writers
    /\ UNCHANGED << run_options, registry, entry_index, all_stats_writers,
                    plugin_stats_writers, log, calls, raised >>

Next ==
    \/ NoPluginEntryPoints
    \/ FetchEntryPoints
    \/ LoadEntry
    \/ InvokeFactory
    \/ CountWriters
    \/ ExtendWriters
    \/ HandleException
    \/ ReturnWriters

Spec == Init /\ [][Next]_vars

\* ================================================================== claims
Done == pc = "done"
PluginsFound == registry.has_key

\* The entries the loop has finished with.
Handled == IF pc \in {"done", "raised"} THEN 1..Len(entry_points)
           ELSE {j \in 1..Len(entry_points) : j < entry_index}

IsDefault(j) == entry_points[j].factory = "get_default_stats_writers"
LoadFails(j) == entry_points[j].load # "ok"
CallRaises(j) ==
    /\ ~LoadFails(j)
    /\ \/ entry_points[j].factory = "raises"
       \/ IsDefault(j) /\ run_options.missing \in {"checkpoint_settings"}
MalformedReturn(j) ==
    /\ ~LoadFails(j)
    /\ entry_points[j].factory \in {"returns_none", "returns_failing_iterable"}
WellBehaved(j) == ~LoadFails(j) /\ ~CallRaises(j) /\ ~MalformedReturn(j)

\* How many sinks a well-behaved entry returns.
SinkCount(j) == IF IsDefault(j) THEN 4 ELSE entry_points[j].k

DefaultTypes == << "TensorboardWriter", "GaugeWriter", "ConsoleWriter", "WandbWriter" >>
SinkType(j, n) == IF IsDefault(j) THEN DefaultTypes[n] ELSE "PluginWriter"

Types(writers) == [n \in 1..Len(writers) |-> writers[n].type]
FromEntry(writers, j) == SelectSeq(writers, LAMBDA w : w.entry = j)
IsDefaultSink(w) == w.type \in {DefaultTypes[n] : n \in 1..4}

\* The (entry, serial, type) of every sink the entries j..Len(entry_points)
\* in the set ok contribute when each contributes all it returns.
RECURSIVE Concatenation(_, _)
Concatenation(j, ok) ==
    IF j > Len(entry_points) THEN <<>>
    ELSE (IF j \in ok THEN [n \in 1..SinkCount(j) |-> << j, n, SinkType(j, n) >>]
          ELSE <<>>)
         \o Concatenation(j + 1, ok)

Identities(writers) ==
    [n \in 1..Len(writers) |-> << writers[n].entry, writers[n].serial, writers[n].type >>]

\* C1: with the namespace key registered, an entry whose load() or whose
\* factory call raises contributes zero sinks, the call never ends in an
\* exception, and every sink of every well-behaved entry handled so far,
\* before or after a failing one, is in the accumulated (and returned) list.
C1_FailingEntryIsolated ==
    PluginsFound =>
        /\ raised = "none" /\ pc # "raised"
        /\ \A j \in Handled :
             /\ (LoadFails(j) \/ CallRaises(j)) => FromEntry(all_stats_writers, j) = <<>>
             /\ WellBehaved(j) =>
                  Identities(FromEntry(all_stats_writers, j))
                    = [n \in 1..SinkCount(j) |-> << j, n, SinkType(j, n) >>]
        /\ Done => result = all_stats_writers

C1_Witness ==
    /\ Done /\ PluginsFound
    /\ \E j, l \in 1..Len(entry_points) :
         /\ LoadFails(j) \/ CallRaises(j)
         /\ WellBehaved(l) /\ SinkCount(l) > 0
         /\ FromEntry(result, l) # <<>>

\* C2: when the namespace key is absent and the RunOptions is well formed,
\* resolve returns exactly the four default sinks in the order tensorboard,
\* gauge, console, experiment tracker, and loads and calls no entry point.
C2_AbsentKeyGivesDefaults ==
    (~PluginsFound /\ ~ReadRaises(run_options) /\ pc # "start") =>
        /\ Done
        /\ Types(result) = DefaultTypes
        /\ calls = <<>>

C2_Witness == Done /\ ~PluginsFound /\ Len(result) = 4

\* C3: when every registered entry is well behaved, resolve returns the
\* concatenation of what the entries return, in the order the registry yields
\* them, of length sum(k_i) (4 for the defaults entry), each entry loaded and
\* called exactly once.
C3_ConcatenationInRegistryOrder ==
    (Done /\ PluginsFound /\ \A j \in 1..Len(entry_points) : WellBehaved(j)) =>
        /\ Identities(result) = Concatenation(1, 1..Len(entry_points))
        /\ Len(calls) = 2 * Len(entry_points)
        /\ \A j \in 1..Len(entry_points) :
             calls[2 * j - 1] = << "load", j >> /\ calls[2 * j] = << "call", j >>

C3_Witness ==
    /\ Done /\ PluginsFound /\ Len(entry_points) = 2
    /\ \A j \in 1..Len(entry_points) : WellBehaved(j)
    /\ \E j \in 1..Len(entry_points) : IsDefault(j)
    /\ Len(result) = 5

\* C4 as stated: in a result that holds default sinks, no sink of a
\* non-default entry point precedes a default sink, whatever the order of
\* the entry points.
C4_DefaultsAlwaysFirst ==
    Done => \A a, b \in 1..Len(result) :
                (a < b /\ IsDefaultSink(result[b])) => IsDefaultSink(result[a])

\* C4 amended: the sinks of a result are in the order the registry yields
\* their entry points, so a sink of a non-default entry point precedes a
\* default sink exactly when its entry point is yielded before the defaults
\* entry point that built that default sink.
C4_SinksInRegistryOrder ==
    Done => \A a, b \in 1..Len(result) :
                /\ a < b => result[a].entry <= result[b].entry
                /\ (~IsDefaultSink(result[a]) /\ IsDefaultSink(result[b])) =>
                      (a < b <=> result[a].entry < result[b].entry)

C4_Witness ==
    /\ Done
    /\ \E a, b \in 1..Len(result) :
         a < b /\ ~IsDefaultSink(result[a]) /\ IsDefaultSink(result[b])

\* The defaults were to be built: by resolve itself when the key is absent,
\* by the defaults entry point when it is registered.
DefaultsBuilt ==
    \/ ~PluginsFound /\ pc # "start"
    \/ PluginsFound /\ \E j \in Handled : IsDefault(j) /\ ~LoadFails(j)

\* C5 as stated: a RunOptions that lacks a field the default factory reads is
\* never absorbed: in both branches the call ends in the AttributeError
\* instead of returning.
C5_MalformedAlwaysPropagates ==
    (ReadRaises(run_options) /\ DefaultsBuilt) => ~Done

\* C5 amended: the AttributeError of a malformed RunOptions reaches the
\* caller only when the namespace key is absent; when the key is registered
\* the call never ends in an exception: the error is raised inside the
\* defaults entry point's try block, is logged like any plugin failure, and
\* the defaults entry contributes no sink.
C5_MalformedPropagatesOnlyWithoutKey ==
    /\ (~PluginsFound /\ ReadRaises(run_options) /\ pc # "start") =>
          (pc = "raised" /\ raised = "AttributeError" /\ result = <<>>)
    /\ PluginsFound => (pc # "raised" /\ raised = "none")
    /\ (PluginsFound /\ ReadRaises(run_options)) =>
          /\ \A n \in 1..Len(all_stats_writers) : ~IsDefaultSink(all_stats_writers[n])
          /\ \A j \in Handled :
               (IsDefault(j) /\ ~LoadFails(j)) =>
                  \E n \in 1..Len(log) :
                      log[n] = LogRecord("exception", entry_points[j].name)

C5_Witness ==
    /\ Done /\ PluginsFound /\ ReadRaises(run_options)
    /\ \E j \in 1..Len(entry_points) : IsDefault(j)
    /\ \E j \in 1..Len(entry_points) : WellBehaved(j) /\ FromEntry(result, j) # <<>>

\* The StatsWriters built so far.
BuiltWriters ==
    {all_stats_writers[n] : n \in 1..Len(all_stats_writers)}
      \cup {result[n] : n \in 1..Len(result)}
      \cup {plugin_stats_writers.items[n] : n \in 1..Len(plugin_stats_writers.items)}

WandbConfigs == {w.config : w \in {t \in BuiltWriters : t.type = "WandbWriter"}}

\* C6: in the ExtractedConfigMap a value whose type JSON can encode is kept
\* unchanged, a value it cannot encode is replaced by its string form, keys
\* likewise, and every value of the map is one JSON can encode.
C6_OnlyUnserializableCoerced ==
    \A config \in WandbConfigs :
        LET data == ExtractedData(run_options)
        IN /\ Len(config) = Len(data)
           /\ \A n \in 1..Len(data) :
                /\ config[n].key = data[n].key
                /\ config[n].val = IF data[n].val.kind \in JsonEncodable
                                   THEN data[n].val ELSE str(data[n].val)
                /\ config[n].val.kind \in JsonEncodable

\* C7: every tensorboard sink built by the default factory clears past data
\* exactly when checkpoint_settings.resume is false, writes under
\* checkpoint_settings.write_path and hides "Is Training" and "Step".
C7_TensorboardFromCheckpointSettings ==
    \A w \in BuiltWriters :
        w.type = "TensorboardWriter" =>
            /\ w.clear_past_data = ~run_options.checkpoint_settings.resume
            /\ w.base_dir = run_options.checkpoint_settings.write_path
            /\ w.hidden_keys = << "Is Training", "Step" >>

C7_Witness ==
    /\ Done /\ run_options.checkpoint_settings.resume
    /\ \E n \in 1..Len(result) :
         result[n].type = "TensorboardWriter" /\ ~result[n].clear_past_data

\* C8: an entry whose factory returns a malformed value (no length, or an
\* iterable that raises after yielding sinks) leaves nothing in the
\* accumulator: once it is handled no sink of it is there.
C8_MalformedReturnSkippedWhole ==
    \A j \in Handled : MalformedReturn(j) => FromEntry(all_stats_writers, j) = <<>>

\* Whether an object has the public data attribute `name`, and its value.
Public(obj, name) ==
    \E n \in 1..Len(obj) :
        obj[n].key = name /\ obj[n].val.kind # "method" /\ name \notin {"__class__", "__doc__"}
Attribute(obj, name) == obj[CHOOSE n \in 1..Len(obj) : obj[n].key = name].val

AttributeNames ==
    {"batch_size", "learning_rate", "max_steps", "tau", "hyperparameters", "trainer_type",
     "env_settings_seed", "as_dict", "__class__", "__doc__", "no_graphics", "width",
     "env_args", "seed", "device"}

SettingsKey(setting_name, name) == setting_name \o "_" \o name
SettingsKeys ==
    {SettingsKey(settings_list[n], a) : n \in 1..3, a \in AttributeNames}

\* C9: in the map given to the experiment tracker an un-prefixed key holds
\* the value of the last behavior that has the attribute, that behavior's own
\* attribute before its hyperparameter of the same name, and every public
\* attribute of engine_settings, env_settings and torch_settings is under
\* "<settings_name>_<attr>", written after, hence over, the behavior keys.
\* Values are compared by their text, which the string coercion keeps.
C9_LastWriterWins ==
    \A config \in WandbConfigs :
        LET behaviors == run_options.behaviors
            Holders(a) == {n \in 1..Len(behaviors) :
                             \/ Public(behaviors[n].attrs, a)
                             \/ Public(behaviors[n].hyperparameters, a)}
            Last(a) == CHOOSE n \in Holders(a) : \A m \in Holders(a) : m <= n
            Winner(a) == IF Public(behaviors[Last(a)].attrs, a)
                         THEN Attribute(behaviors[Last(a)].attrs, a)
                         ELSE Attribute(behaviors[Last(a)].hyperparameters, a)
        IN /\ \A a \in AttributeNames :
                IF Holders(a) # {} /\ a \notin SettingsKeys
                THEN /\ DictHas(config, PyStr(a))
                     /\ DictGet(config, PyStr(a)).text = Winner(a).text
                ELSE a \in SettingsKeys \/ ~DictHas(config, PyStr(a))
           /\ \A n \in 1..3 : \A a \in AttributeNames :
                LET obj == getattr(run_options, settings_list[n])
                    key == PyStr(SettingsKey(settings_list[n], a))
                IN IF Public(obj, a)
                   THEN DictHas(config, key) /\ DictGet(config, key).text = Attribute(obj, a).text
                   ELSE ~DictHas(config, key)

C9_Witness ==
    /\ Done
    /\ run_options.behaviors = << PPOBehavior, SACBehavior >>
    /\ \E config \in WandbConfigs :
         /\ DictGet(config, PyStr("batch_size")).text = "64"
         /\ DictGet(config, PyStr("max_steps")).text = "1000"
         /\ DictGet(config, PyStr("env_settings_seed")).text = "-1"

\* C10: with the namespace key registered, resolve returns exactly the sinks
\* of the entries that succeeded, in order: no default sink unless the
\* defaults entry point succeeded, and the empty list when every entry
\* failed.
C10_OnlySucceededEntries ==
    (Done /\ PluginsFound) =>
        Identities(result)
          = Concatenation(1, {j \in 1..Len(entry_points) : WellBehaved(j)})

====
